---------------------------- MODULE Spec2Model ----------------------------
(***************************************************************************)
(* Linearizer: search for a parametric transformation of a variable x that *)
(* maximises a linear-association metric against a target y.               *)
(*                                                                         *)
(*   src/linearizer/transform.py   the transform catalog                   *)
(*   src/linearizer/utils.py       the preprocessor                        *)
(*   src/linearizer/linearizer.py  find_best_transformation, Linearizer    *)
(*                                                                         *)
(* Numbers.  Metric values are reals in the program; here they are points  *)
(* of an integer grid 0..MaxScore plus NaN, and min_delta is a number of   *)
(* grid steps.  The values computed by numpy/scipy (the metric of a pair,  *)
(* the estimate curve_fit returns, whether it converges) are inputs drawn  *)
(* from small sets.  Table cells and fitted coefficients are integers, and *)
(* the transform shapes evaluated on them are the integer-exact ones (Abs, *)
(* positive integer powers).                                               *)
(***************************************************************************)
EXTENDS Integers, Sequences, FiniteSets

(***************************************************************************)
(* Bounds of the model.                                                    *)
(***************************************************************************)
MaxCatalog == 2
MaxScore == 2

\* Not-a-number, the value numpy's statistics take on degenerate input.
NaN == 0 - 1

Scores == (0..MaxScore) \cup {NaN}

\* IEEE comparison and addition: every comparison with NaN is false.
Gt(u, v) == u # NaN /\ v # NaN /\ u > v
Add(u, v) == IF u = NaN \/ v = NaN THEN NaN ELSE u + v

Range(s) == {s[k] : k \in DOMAIN s}

(***************************************************************************)
(* transform.py                                                            *)
(***************************************************************************)
\* A catalog entry is a class (calling it makes an instance) or an instance.
Class(n) == [kind |-> "class", name |-> n]
Instance(n) == [kind |-> "instance", name |-> n]

\* BaseTransformer.__init__: params = None.
NewTransformer(n) == [name |-> n, fitted |-> FALSE, a |-> 0, b |-> 0]

\* The shape exponent n of the _Power subclasses with a positive integer n.
PowerN(n) == CASE n = "Power2" -> 2 [] n = "Power3" -> 3 [] n = "Power4" -> 4

RECURSIVE Pow(_, _)
Pow(v, n) == IF n = 0 THEN 1 ELSE v * Pow(v, n - 1)

AbsVal(v) == IF v < 0 THEN 0 - v ELSE v

\* __call__(x, a, b) of a shape, on one element.
Evaluate(n, x, a, b) ==
    IF n = "Abs" THEN AbsVal(a * x + b) ELSE Pow(a * x + b, PowerN(n))

\* DEFAULT_TRANSFORM: a list of instances.
DEFAULT_TRANSFORM ==
    << Instance("Abs"), Instance("Loge"), Instance("Exp"), Instance("Power2"),
       Instance("Power3"), Instance("Sqrt"), Instance("Inv"), Instance("InvPower2") >>

\* validate_input: np.isfinite(x).all(); xFinite says whether x is all finite.
validate_input(xFinite) == xFinite

\* get_params: the names of __call__'s parameters other than x.
get_params == << "a", "b" >>

\* dict(zip(params, estimation))
Zip(names, vals) ==
    [k \in {names[j] : j \in DOMAIN names \cap DOMAIN vals} |->
        vals[CHOOSE j \in DOMAIN names \cap DOMAIN vals : names[j] = k]]

\* set_params(params)
set_params(trf, params) ==
    [trf EXCEPT !.fitted = TRUE, !.a = params["a"], !.b = params["b"]]

\* `trf = trf()`: calling a class instantiates it; calling an instance invokes
\* __call__ without x, a, b, a TypeError.
Instantiate(entry) ==
    IF entry.kind = "class"
    THEN [ok |-> TRUE, trf |-> NewTransformer(entry.name)]
    ELSE [ok |-> FALSE, trf |-> NewTransformer(entry.name)]

(***************************************************************************)
(* linearizer.py: find_best_transformation                                 *)
(***************************************************************************)
NoTrf == [name |-> "None", fitted |-> FALSE, a |-> 0, b |-> 0]

NoRet == [kind |-> "pending", error |-> "", score |-> NaN, trf |-> NoTrf]
Raise(e) == [kind |-> "raise", error |-> e, score |-> NaN, trf |-> NoTrf]
Null == [kind |-> "null", error |-> "", score |-> NaN, trf |-> NoTrf]
Found(p) == [kind |-> "result", error |-> "", score |-> p[1], trf |-> p[2]]

\* The transformations argument: None, or a list.
None == [given |-> FALSE, list |-> << >>]
Some(l) == [given |-> TRUE, list |-> l]

\* trfs = transformations or DEFAULT_TRANSFORM (None and [] are falsy).
ResolveCatalog(t) ==
    IF t.given /\ Len(t.list) > 0 THEN t.list ELSE DEFAULT_TRANSFORM

\* _METRICS
METRICS == {"corr", "r2"}

\* The metric argument: a string, a function, or something else.
\* The error raised by the resolution, "" when there is none.
ResolveMetric(metric) ==
    IF metric.type = "str"
    THEN IF metric.name \notin METRICS THEN "ValueError" ELSE ""
    ELSE IF metric.type = "function" THEN "" ELSE "ValueError"

\* A variant of the handler that catches nothing.
CaughtMutant(e) == FALSE
\* except RuntimeError
Caught(e) == e = "RuntimeError"

\* A variant of the test that also keeps a score equal to the bar.
KeepsMutant(m, baseline, min_delta) ==
    m # NaN /\ baseline # NaN /\ m >= baseline + min_delta
\* if m > baseline + min_delta
Keeps(m, baseline, min_delta) == Gt(m, Add(baseline, min_delta))

\* sorted(result, reverse=True) compares (m, trf) tuples; on equal m it
\* compares the transformers, which define no ordering: TypeError.
HasTie(result) ==
    \E j, k \in DOMAIN result : j < k /\ result[j][1] = result[k][1]

\* if result: return sorted(result, reverse=True)[0] else: return None, None
Select(result) ==
    IF Len(result) = 0 THEN Null
    ELSE IF HasTie(result) THEN Raise("TypeError")
    ELSE Found(CHOOSE p \in Range(result) : \A q \in Range(result) : q[1] <= p[1])

\* simplefilter(action) puts the filter at the front of warnings.filters.
FilterAction(suppress_warning) == IF suppress_warning THEN "ignore" ELSE "always"

\* The outcome of one curve_fit call and of the metric of the transformed x.
Estimates == { << 2, 1 >> }
Outcomes ==
    [fit : {"ok"}, est : Estimates, m : Scores]
        \cup [fit : {"RuntimeError"}, est : {<< 0, 0 >>}, m : {NaN}]
NoOutcome == [fit |-> "none", est |-> << 0, 0 >>, m |-> NaN]

\* The loop over the catalog from entry k on, and the selection after it.
RECURSIVE ScanFrom(_, _, _, _, _, _, _)
ScanFrom(cat, os, k, xFinite, base, min_delta, res) ==
    IF k > Len(cat) THEN Select(res)
    ELSE LET inst == Instantiate(cat[k]) IN
         IF ~inst.ok THEN Raise("TypeError")
         ELSE IF ~validate_input(xFinite)
         THEN ScanFrom(cat, os, k + 1, xFinite, base, min_delta, res)
         ELSE IF os[k].fit # "ok"
         THEN IF Caught(os[k].fit)
              THEN ScanFrom(cat, os, k + 1, xFinite, base, min_delta, res)
              ELSE Raise(os[k].fit)
         ELSE LET t == set_params(inst.trf, Zip(get_params, os[k].est)) IN
              ScanFrom(cat, os, k + 1, xFinite, base, min_delta,
                       IF Keeps(os[k].m, base, min_delta)
                       THEN Append(res, << os[k].m, t >>) ELSE res)

\* find_best_transformation as a function of its arguments and of the values
\* numpy/scipy compute during the call.
find_best_transformation(t, metric, min_delta, xFinite, base, os) ==
    IF ResolveMetric(metric) # "" THEN Raise(ResolveMetric(metric))
    ELSE ScanFrom(ResolveCatalog(t), os, 1, xFinite, base, min_delta, << >>)


\* transform(x): ValueError before set_params, else __call__ with the stored
\* parameters on every element of x.
transform(trf, x) ==
    IF ~trf.fitted THEN [error |-> "ValueError", value |-> x]
    ELSE [error |-> "", value |-> [k \in DOMAIN x |-> Evaluate(trf.name, x[k], trf.a, trf.b)]]

(***************************************************************************)
(* utils.py                                                                *)
(*                                                                         *)
(* An array is [numeric, vals]: whether its dtype is numeric, and its      *)
(* elements.  Of the preprocessed pair only whether it was produced, and   *)
(* by which bucketing path, is modelled.                                   *)
(***************************************************************************)
\* check_numerical: the error raised, "" when there is none.
check_numerical(x) == IF ~x.numeric THEN "ValueError" ELSE ""

\* check_binary_label: set(y) != set([0, 1])
check_binary_label(y) == IF Range(y) # {0, 1} THEN "ValueError" ELSE ""

INTERVAL_VALUES == {"left", "right", "mean"}

\* as_positive_rate(x, y, bins, interval_value)
as_positive_rate(x, y, bins, interval_value) ==
    IF check_numerical(x) # "" THEN [error |-> check_numerical(x), path |-> ""]
    ELSE IF check_binary_label(y) # "" THEN [error |-> check_binary_label(y), path |-> ""]
    ELSE IF Cardinality(Range(x.vals)) <= bins THEN [error |-> "", path |-> "groupby"]
    ELSE IF interval_value \in INTERVAL_VALUES THEN [error |-> "", path |-> "cut"]
    ELSE [error |-> "ValueError", path |-> ""]

\* _TRANSFORMS
TRANSFORMS == {"odds", "logodds"}

\* The transform_y argument: None, a string, a function, or something else.
TransformY(ty) ==
    IF ty.type = "none" THEN ""
    ELSE IF ty.type = "str"
    THEN IF ty.name \notin TRANSFORMS THEN "ValueError" ELSE ""
    ELSE IF ty.type = "function" THEN "" ELSE "ValueError"

ACCORDING == {"x", "y", "both"}

\* drop_na(x, y, according): the error raised, "" when there is none.  np.isnan
\* raises TypeError on an array of a non-numeric dtype; xNumeric and yNumeric
\* say whether x and y are of a numeric dtype.  The elements of the arrays of
\* this model are integers, none of them missing, so nothing is dropped.
drop_na(xNumeric, yNumeric, according) ==
    IF according \notin ACCORDING THEN "ValueError"
    ELSE IF according \in {"x", "both"} /\ ~xNumeric THEN "TypeError"
    ELSE IF according \in {"y", "both"} /\ ~yNumeric THEN "TypeError"
    ELSE ""

\* preprocess(x, y, binary_label, bins, transform_y, interval_value, ignore_na).
\* After as_positive_rate x is the index of the positive rates, a numeric
\* array; y, a sequence of integers, is numeric throughout.
preprocess(x, y, binary_label, bins, transform_y, interval_value, ignore_na) ==
    LET rate == IF binary_label THEN as_positive_rate(x, y, bins, interval_value)
                ELSE [error |-> "", path |-> "raw"]
        xNumeric == binary_label \/ x.numeric
    IN IF rate.error # "" THEN rate
       ELSE IF TransformY(transform_y) # ""
       THEN [error |-> TransformY(transform_y), path |-> ""]
       ELSE IF ignore_na /\ drop_na(xNumeric, TRUE, "both") # ""
       THEN [error |-> drop_na(xNumeric, TRUE, "both"), path |-> ""]
       ELSE rate

(***************************************************************************)
(* linearizer.py: Linearizer                                               *)
(***************************************************************************)
\* find_best_transformation's default min_delta=0.0
DefaultMinDelta == 0
\* Linearizer's default bins=30
DefaultBins == 30

EmptyMap == [c \in {} |-> NoTrf]

\* A variant of __init__ that stores a given catalog as self.transformations.
LinearizerInitMutant(a) ==
    [cols |-> a.cols, bins |-> a.bins, binary_label |-> a.binary_label,
     transform_y |-> a.transform_y, cand_trfs |-> a.transformations,
     metric |-> a.metric, ignore_na |-> a.ignore_na,
     suppress_warning |-> a.suppress_warning, copy |-> a.copy,
     hasTransformations |-> a.transformations.given, transformations |-> EmptyMap]
\* __init__: the attributes it sets.  min_delta is accepted and not stored;
\* the candidate catalog is stored as cand_trfs.
LinearizerInit(a) ==
    [cols |-> a.cols, bins |-> a.bins, binary_label |-> a.binary_label,
     transform_y |-> a.transform_y, cand_trfs |-> a.transformations,
     metric |-> a.metric, ignore_na |-> a.ignore_na,
     suppress_warning |-> a.suppress_warning, copy |-> a.copy,
     hasTransformations |-> FALSE, transformations |-> EmptyMap]

\* check_is_fitted(self, 'transformations'): the attribute exists.
check_is_fitted(self) == self.hasTransformations

\* cols = self.cols or X.columns
FitCols(self, columns) == IF Len(self.cols) > 0 THEN self.cols ELSE columns

\* self.transformations[col] = trf
Store(m, c, trf) == [k \in DOMAIN m \cup {c} |-> IF k = c THEN trf ELSE m[k]]

\* A variant of transform that never copies.
CallerTableMutant(copy, X, out) == out
\* if self.copy: X = X.copy() -- the table the caller holds after the call.
CallerTable(copy, X, out) == IF copy THEN X ELSE out

\* The loop of Linearizer.transform over the column mapping.
ApplyAll(m, X) ==
    [c \in DOMAIN X |->
        IF c \in DOMAIN m /\ m[c] # NoTrf THEN transform(m[c], X[c]).value ELSE X[c]]

(***************************************************************************)
(* State.                                                                  *)
(***************************************************************************)
VARIABLES
    \* a call of find_best_transformation
    pc,           \* position in find_best_transformation
    args,         \* the arguments of the call
    trfs,         \* the resolved catalog
    baseline,     \* metric(x, y)
    i,            \* index of the catalog entry of the current iteration
    cur,          \* trf, the instance of the current iteration
    result,       \* the list of (m, trf)
    ret,          \* what the call returned or raised
    warnFilters,  \* warnings.filters, front first
    outs,         \* the outcome met at each catalog entry processed so far
    \* a Linearizer and the table its caller holds
    self,         \* the attributes of the estimator
    minDeltaArg,  \* the min_delta given to the constructor
    lpc,          \* "idle", or "fit" inside Linearizer.fit
    col,          \* index of the next column of the fit loop
    fitY,         \* the y given to fit
    fitCalled,    \* whether fit was ever called
    lastSearch,   \* baseline and score of the transform the fit loop stored last
    table,        \* the caller's table
    xlog,         \* the transform calls since the last fit: status, input, output
    nCalls,       \* number of transform calls so far
    \* a call of preprocess
    pre           \* the arguments and the outcome of the last call

searchVars == << pc, args, trfs, baseline, i, cur, result, ret, warnFilters, outs >>
linVars == << self, minDeltaArg, lpc, col, fitY, fitCalled, lastSearch, table, xlog, nCalls >>
vars == << searchVars, linVars, pre >>

(***************************************************************************)
(* Inputs.                                                                 *)
(***************************************************************************)
MaxCell == 1
MaxTransformCalls == 2
MaxBins == 2

\* The filters of the caller.
CallerFilters == << "default" >>

UserEntries == {Class("Abs"), Class("Power2"), Instance("Abs")}

RECURSIVE SeqsUpTo(_, _)
SeqsUpTo(S, n) ==
    IF n = 0 THEN {<< >>}
    ELSE LET shorter == SeqsUpTo(S, n - 1) IN
         shorter \cup {Append(s, e) : s \in {q \in shorter : Len(q) = n - 1}, e \in S}

Catalogs == {None} \cup {Some(l) : l \in SeqsUpTo(UserEntries, MaxCatalog)}

MetricArgs ==
    { [type |-> "str", name |-> "corr"], [type |-> "str", name |-> "mse"],
      [type |-> "function", name |-> ""], [type |-> "other", name |-> ""] }

MinDeltas == {0, 1}

NoArgs == [transformations |-> None, metric |-> [type |-> "str", name |-> "corr"],
           min_delta |-> 0, suppress_warning |-> TRUE, xFinite |-> TRUE]

\* Linearizer: constructor arguments.  cols = << >> stands for None (and for
\* the empty list, which is falsy too).
TableCols == << "c1", "c2" >>
LinCatalogs == {None, Some(<< Class("Abs") >>), Some(<< Class("Power2") >>)}
NoTransformY == [type |-> "none", name |-> ""]
CtorArgs ==
    [cols : {<< >>, << "c1" >>}, bins : {DefaultBins}, binary_label : BOOLEAN,
     transform_y : {NoTransformY}, transformations : LinCatalogs,
     metric : {[type |-> "str", name |-> "corr"]}, ignore_na : {TRUE},
     suppress_warning : {TRUE}, copy : BOOLEAN]
CtorMinDeltas == {0, 2}

\* A table: one row of cells per column.
Tables == [Range(TableCols) -> [1..1 -> 0..MaxCell]]

\* The arrays given to fit: a numeric column, a column of another dtype.
NumericColumn == [numeric |-> TRUE, vals |-> << 0, 1 >>]
ObjectColumn == [numeric |-> FALSE, vals |-> << 0, 1 >>]
FitLabels == {<< 0, 1 >>, << 0, 2 >>}

NoSearch == [found |-> FALSE, baseline |-> NaN, score |-> NaN]

\* preprocess: arguments of a direct call.
PreArrays ==
    {[numeric |-> TRUE, vals |-> v] : v \in [1..2 -> 1..2]} \cup {ObjectColumn}
PreLabels == [1..2 -> 0..2]
TransformYArgs ==
    { NoTransformY, [type |-> "str", name |-> "logodds"], [type |-> "str", name |-> "log"],
      [type |-> "function", name |-> ""], [type |-> "other", name |-> ""] }
IntervalValues == INTERVAL_VALUES \cup {"center"}

NoPre == [called |-> FALSE, x |-> NumericColumn, y |-> << 0, 1 >>, binary_label |-> TRUE,
          bins |-> 1, transform_y |-> NoTransformY, interval_value |-> "mean",
          ignore_na |-> TRUE, error |-> "", path |-> ""]

(***************************************************************************)
(* Initial states.                                                         *)
(***************************************************************************)
SearchIdle ==
    /\ pc = "idle"
    /\ args = NoArgs
    /\ trfs = << >>
    /\ baseline = NaN
    /\ i = 0
    /\ cur = NoTrf
    /\ result = << >>
    /\ ret = NoRet
    /\ warnFilters = CallerFilters
    /\ outs = << >>

LinearizerNew(a, d, t) ==
    /\ self = LinearizerInit(a)
    /\ minDeltaArg = d
    /\ lpc = "idle"
    /\ col = 0
    /\ fitY = << >>
    /\ fitCalled = FALSE
    /\ lastSearch = NoSearch
    /\ table = t
    /\ xlog = << >>
    /\ nCalls = 0

DefaultCtorArgs ==
    [cols |-> << >>, bins |-> DefaultBins, binary_label |-> TRUE,
     transform_y |-> NoTransformY, transformations |-> None,
     metric |-> [type |-> "str", name |-> "corr"], ignore_na |-> TRUE,
     suppress_warning |-> TRUE, copy |-> TRUE]
ZeroTable == [c \in Range(TableCols) |-> << 0 >>]

Init ==
    /\ SearchIdle
    /\ LinearizerNew(DefaultCtorArgs, 0, ZeroTable)
    /\ pre = NoPre

InitLinearizer ==
    /\ SearchIdle
    /\ \E a \in CtorArgs, d \in CtorMinDeltas, t \in Tables : LinearizerNew(a, d, t)
    /\ pre = NoPre

(***************************************************************************)
(* find_best_transformation, step by step.                                 *)
(***************************************************************************)
\* Lines 43-52: the catalog and the metric are resolved.
Call(t, metric, d, sw, fin) ==
    /\ pc = "idle"
    /\ args' = [transformations |-> t, metric |-> metric, min_delta |-> d,
                suppress_warning |-> sw, xFinite |-> fin]
    /\ trfs' = ResolveCatalog(t)
    /\ baseline' = NaN
    /\ i' = 0
    /\ cur' = NoTrf
    /\ result' = << >>
    /\ outs' = << >>
    /\ IF ResolveMetric(metric) # ""
       THEN pc' = "raised" /\ ret' = Raise(ResolveMetric(metric))
       ELSE pc' = "baseline" /\ ret' = NoRet
    /\ UNCHANGED << warnFilters, linVars, pre >>

\* Lines 55-61: the baseline, then the with block is entered.
Baseline(b) ==
    /\ pc = "baseline"
    /\ baseline' = b
    /\ warnFilters' = << FilterAction(args.suppress_warning) >> \o warnFilters
    /\ result' = << >>
    /\ i' = 1
    /\ pc' = "instantiate"
    /\ UNCHANGED << args, trfs, cur, ret, outs, linVars, pre >>

\* Lines 62-64, and lines 85-89 when the catalog is exhausted.  Leaving the
\* with block, normally or by an exception, restores the caller's filters.
NextEntry ==
    /\ pc = "instantiate"
    /\ IF i > Len(trfs)
       THEN /\ warnFilters' = Tail(warnFilters)
            /\ ret' = Select(result)
            /\ pc' = IF Select(result).kind = "raise" THEN "raised" ELSE "returned"
            /\ UNCHANGED << cur, outs, i >>
       ELSE IF Instantiate(trfs[i]).ok
       THEN /\ cur' = Instantiate(trfs[i]).trf
            /\ pc' = "validate"
            /\ UNCHANGED << warnFilters, ret, outs, i >>
       ELSE /\ warnFilters' = Tail(warnFilters)
            /\ ret' = Raise("TypeError")
            /\ pc' = "raised"
            /\ UNCHANGED << cur, outs, i >>
    /\ UNCHANGED << args, trfs, baseline, result, linVars, pre >>

\* Lines 66-67.
Validate ==
    /\ pc = "validate"
    /\ IF validate_input(args.xFinite)
       THEN pc' = "curve_fit" /\ UNCHANGED << i, outs >>
       ELSE pc' = "instantiate" /\ i' = i + 1 /\ outs' = Append(outs, NoOutcome)
    /\ UNCHANGED << args, trfs, baseline, cur, result, ret, warnFilters, linVars, pre >>

\* Lines 70-78: curve_fit, and set_params when it converged.
CurveFit(o) ==
    /\ pc = "curve_fit"
    /\ outs' = Append(outs, o)
    /\ IF o.fit = "ok"
       THEN /\ cur' = set_params(cur, Zip(get_params, o.est))
            /\ pc' = "score"
            /\ UNCHANGED << i, ret, warnFilters >>
       ELSE IF Caught(o.fit)
       THEN /\ pc' = "instantiate"
            /\ i' = i + 1
            /\ UNCHANGED << cur, ret, warnFilters >>
       ELSE /\ pc' = "raised"
            /\ ret' = Raise(o.fit)
            /\ warnFilters' = Tail(warnFilters)
            /\ UNCHANGED << cur, i >>
    /\ UNCHANGED << args, trfs, baseline, result, linVars, pre >>

\* Lines 81-83: the metric after the transformation, outs[i].m.
Score ==
    /\ pc = "score"
    /\ result' = IF Keeps(outs[i].m, baseline, args.min_delta)
                 THEN Append(result, << outs[i].m, cur >>) ELSE result
    /\ i' = i + 1
    /\ pc' = "instantiate"
    /\ UNCHANGED << args, trfs, baseline, cur, ret, warnFilters, outs, linVars, pre >>

\* The caller takes the result or the exception; the next call starts afresh.
Finish ==
    /\ pc \in {"returned", "raised"}
    /\ pc' = "idle"
    /\ args' = NoArgs
    /\ trfs' = << >>
    /\ baseline' = NaN
    /\ i' = 0
    /\ cur' = NoTrf
    /\ result' = << >>
    /\ ret' = NoRet
    /\ outs' = << >>
    /\ UNCHANGED << warnFilters, linVars, pre >>

Next ==
    \/ \E t \in Catalogs, metric \in MetricArgs, d \in MinDeltas,
          sw \in BOOLEAN, fin \in BOOLEAN : Call(t, metric, d, sw, fin)
    \/ \E b \in Scores : Baseline(b)
    \/ NextEntry
    \/ Validate
    \/ \E o \in Outcomes : CurveFit(o)
    \/ Score
    \/ Finish

Spec == Init /\ [][Next]_vars

(***************************************************************************)
(* Linearizer.fit, column by column, and Linearizer.transform.             *)
(***************************************************************************)
\* Lines 123-125: the columns, and a new empty mapping.
FitBegin(y) ==
    /\ lpc = "idle"
    /\ self' = [self EXCEPT !.hasTransformations = TRUE, !.transformations = EmptyMap]
    /\ lpc' = "fit"
    /\ col' = 1
    /\ fitY' = y
    /\ fitCalled' = TRUE
    /\ lastSearch' = NoSearch
    /\ xlog' = << >>
    /\ UNCHANGED << minDeltaArg, table, nCalls, searchVars, pre >>

\* Lines 126-138: one iteration.  x is X[col]; b and os are what numpy and
\* scipy compute on the preprocessed pair, whose elements are finite as the
\* cells of a table are.  An exception ends the call.
FitColumn(x, b, os) ==
    /\ lpc = "fit"
    /\ col <= Len(FitCols(self, TableCols))
    /\ LET p == preprocess(x, fitY, self.binary_label, self.bins, self.transform_y,
                           "mean", self.ignore_na)
           r == find_best_transformation(self.cand_trfs, self.metric, DefaultMinDelta,
                                         TRUE, b, os)
       IN IF p.error # "" \/ r.kind = "raise"
          THEN /\ lpc' = "idle"
               /\ col' = 0
               /\ lastSearch' = NoSearch
               /\ UNCHANGED self
          ELSE /\ self' = [self EXCEPT !.transformations =
                              Store(@, FitCols(self, TableCols)[col], r.trf)]
               /\ col' = col + 1
               /\ lastSearch' = IF r.kind = "result"
                                THEN [found |-> TRUE, baseline |-> b, score |-> r.score]
                                ELSE NoSearch
               /\ UNCHANGED lpc
    /\ UNCHANGED << minDeltaArg, fitY, fitCalled, table, xlog, nCalls, searchVars, pre >>

\* Line 140.
FitReturn ==
    /\ lpc = "fit"
    /\ col > Len(FitCols(self, TableCols))
    /\ lpc' = "idle"
    /\ col' = 0
    /\ lastSearch' = NoSearch
    /\ UNCHANGED << self, minDeltaArg, fitY, fitCalled, table, xlog, nCalls, searchVars, pre >>

\* Lines 143-152, on the table the caller holds.
Transform ==
    /\ lpc = "idle"
    /\ nCalls < MaxTransformCalls
    /\ nCalls' = nCalls + 1
    /\ IF ~check_is_fitted(self)
       THEN /\ xlog' = Append(xlog, [status |-> "NotFittedError", input |-> table, out |-> table])
            /\ UNCHANGED table
       ELSE LET out == ApplyAll(self.transformations, table) IN
            /\ xlog' = Append(xlog, [status |-> "ok", input |-> table, out |-> out])
            /\ table' = CallerTable(self.copy, table, out)
    /\ UNCHANGED << self, minDeltaArg, lpc, col, fitY, fitCalled, lastSearch, searchVars, pre >>

\* The outcomes of the fits of one search: one per entry of a given catalog.
OutcomeSeqs(t) == [1..Len(t.list) -> Outcomes]

NextLinearizer ==
    \/ \E y \in FitLabels : FitBegin(y)
    \/ \E b \in Scores, os \in OutcomeSeqs(self.cand_trfs) : FitColumn(NumericColumn, b, os)
    \/ (self.binary_label \/ self.ignore_na) /\ FitColumn(ObjectColumn, NaN, << >>)
    \/ FitReturn
    \/ Transform

SpecLinearizer == InitLinearizer /\ [][NextLinearizer]_vars

(***************************************************************************)
(* preprocess, called directly.                                            *)
(***************************************************************************)
Preprocess(x, y, binary_label, bins, transform_y, interval_value, ignore_na) ==
    /\ ~pre.called
    /\ LET p == preprocess(x, y, binary_label, bins, transform_y, interval_value, ignore_na)
       IN pre' = [called |-> TRUE, x |-> x, y |-> y, binary_label |-> binary_label,
                  bins |-> bins, transform_y |-> transform_y,
                  interval_value |-> interval_value, ignore_na |-> ignore_na,
                  error |-> p.error, path |-> p.path]
    /\ UNCHANGED << searchVars, linVars >>

\* The caller takes the pair or the exception; the next call starts afresh.
PreprocessDone ==
    /\ pre.called
    /\ pre' = NoPre
    /\ UNCHANGED << searchVars, linVars >>

NextPreprocess ==
    \/ \E x \in PreArrays, y \in PreLabels, binary_label \in BOOLEAN, bins \in 1..MaxBins,
          transform_y \in TransformYArgs, interval_value \in IntervalValues,
          ignore_na \in BOOLEAN :
          Preprocess(x, y, binary_label, bins, transform_y, interval_value, ignore_na)
    \/ PreprocessDone

SpecPreprocess == Init /\ [][NextPreprocess]_vars

(***************************************************************************)
(* Properties of find_best_transformation (specification Spec).            *)
(***************************************************************************)
Ended == pc \in {"returned", "raised"}

\* The catalog entries whose fit converged and whose score clears the bar.
Qualifying ==
    {k \in DOMAIN outs :
        outs[k].fit = "ok" /\ Gt(outs[k].m, Add(baseline, args.min_delta))}

\* C1: every pair kept, and the pair returned, has a score strictly above
\* baseline + min_delta, the score being the metric of the transformed x of
\* the catalog entry the returned transformer was made from.
C1_ImprovementGuarantee ==
    /\ \A k \in DOMAIN result : Gt(result[k][1], Add(baseline, args.min_delta))
    /\ ret.kind = "result" =>
          /\ Gt(ret.score, Add(baseline, args.min_delta))
          /\ \E k \in DOMAIN outs :
                /\ outs[k].fit = "ok"
                /\ outs[k].m = ret.score
                /\ ret.trf.name = trfs[k].name

\* A call returned a transform after scanning a candidate that did not clear
\* the bar.
C1_Witness ==
    /\ ret.kind = "result"
    /\ \E k \in DOMAIN outs :
          outs[k].fit = "ok" /\ ~Gt(outs[k].m, Add(baseline, args.min_delta))

\* C2: when the scan went through the whole catalog and at least one
\* candidate qualifies, the call returns (does not raise) a qualifying
\* candidate whose score is the maximum over the qualifying ones, ties
\* included.
C2_ReturnsMaximum ==
    (Ended /\ Len(outs) = Len(trfs) /\ Qualifying # {}) =>
        /\ ret.kind = "result"
        /\ \E k \in Qualifying : outs[k].m = ret.score
        /\ \A k \in Qualifying : outs[k].m <= ret.score

\* The indices 1..n of the catalog without the entries whose fit failed to
\* converge, in catalog order.
RECURSIVE Converging(_)
Converging(n) ==
    IF n = 0 THEN << >>
    ELSE IF n <= Len(outs) /\ outs[n].fit = "RuntimeError"
         THEN Converging(n - 1)
         ELSE Append(Converging(n - 1), n)

\* C3: a fit that fails to converge raises nothing, leaves the candidate's
\* parameters unset and no pair in the result, and the scan moves on to the
\* next entry; what the call returns or raises is what the scan of the
\* catalog without the failing entries returns or raises on the same
\* outcomes.
C3_FitFailureDropped ==
    /\ \A k \in DOMAIN outs :
          outs[k].fit = "RuntimeError" =>
              /\ ret.error # "RuntimeError"
              /\ (i = k + 1 /\ pc = "instantiate") => ~cur.fitted
              /\ i > k
    /\ Len(result) <= Cardinality({k \in DOMAIN outs : outs[k].fit = "ok"})
    /\ (Ended /\ ResolveMetric(args.metric) = "") =>
          LET idx == Converging(Len(trfs))
              cat == [j \in 1..Len(idx) |-> trfs[idx[j]]]
              os == [j \in 1..Len(idx) |->
                        IF idx[j] <= Len(outs) THEN outs[idx[j]] ELSE NoOutcome]
          IN ret = ScanFrom(cat, os, 1, args.xFinite, baseline, args.min_delta, << >>)

\* The fit of the first entry failed to converge and the call returned a
\* later entry.
C3_Witness ==
    /\ pc = "returned"
    /\ ret.kind = "result"
    /\ Len(outs) >= 2
    /\ outs[1].fit = "RuntimeError"

\* C4: a call without a catalog scans the default catalog and completes with
\* a qualifying candidate or with (None, None).
C4_DefaultCatalog ==
    (Ended /\ ~args.transformations.given /\ ResolveMetric(args.metric) = "") =>
        ret.kind \in {"result", "null"}

\* C9: the warning filter the call installs is in effect only while
\* curve_fit runs.
C9_FilterScopedToFit ==
    warnFilters # CallerFilters => pc = "curve_fit"

(***************************************************************************)
(* Properties of Linearizer (specification SpecLinearizer).                *)
(***************************************************************************)
\* C5: a transform stored by fit has a score above baseline plus the
\* min_delta given to the constructor.
C5_MinDeltaThreshold ==
    lastSearch.found => Gt(lastSearch.score, Add(lastSearch.baseline, minDeltaArg))

\* C6: on an estimator whose fit was never called, every transform call
\* fails with the not-fitted error and leaves the caller's table as it was.
C6_NotFitted ==
    ~fitCalled =>
        \A k \in DOMAIN xlog :
            xlog[k].status = "NotFittedError" /\ xlog[k].input = table

\* transform was called on a never-fitted estimator constructed with a
\* catalog.
C6_Witness ==
    /\ ~fitCalled
    /\ Len(xlog) > 0
    /\ self.cand_trfs.given

\* C7 as stated: two accepted transform calls in a row on the caller's table
\* return equal tables, whatever the copy option.
C7_TransformTwice ==
    \A k \in DOMAIN xlog :
        (k > 1 /\ xlog[k - 1].status = "ok" /\ xlog[k].status = "ok") =>
            xlog[k].out = xlog[k - 1].out

\* C7 amended: with copy=True, two accepted transform calls in a row on the
\* caller's table return equal tables, and the caller's table is unchanged.
C7_TransformTwiceCopy ==
    self.copy =>
        \A k \in DOMAIN xlog :
            /\ xlog[k].input = table
            /\ (k > 1 /\ xlog[k - 1].status = "ok" /\ xlog[k].status = "ok") =>
                  xlog[k].out = xlog[k - 1].out

\* With copy=True, transform was accepted twice in a row and a stored
\* transform changed the values of a column.
C7_Witness ==
    /\ self.copy
    /\ Len(xlog) >= 2
    /\ xlog[1].status = "ok"
    /\ xlog[2].status = "ok"
    /\ xlog[2].out # xlog[2].input

\* C10: an accepted transform call finds a mapping with an entry for every
\* declared column, also when the last fit stored some columns and then
\* raised.
C10_CompleteMapping ==
    \A k \in DOMAIN xlog :
        (xlog[k].status = "ok" /\ DOMAIN self.transformations # {}) =>
            DOMAIN self.transformations = Range(FitCols(self, TableCols))

(***************************************************************************)
(* Properties of preprocess (specification SpecPreprocess).                *)
(***************************************************************************)
\* An unsupported transform_y, or, with binary_label, an interval_value
\* other than left/right/mean or a label that is not {0, 1}.
ConfigError(p) ==
    \/ TransformY(p.transform_y) # ""
    \/ p.binary_label /\ p.interval_value \notin INTERVAL_VALUES
    \/ p.binary_label /\ check_binary_label(p.y) # ""

\* C8: a call with a configuration error fails with an error, whatever the
\* shape of the data.
C8_ConfigErrorsFail ==
    (pre.called /\ ConfigError(pre)) => pre.error # ""

=============================================================================
